---- MODULE Spec2Model ----
(***************************************************************************)
(* Expense tracker (src/app.py): the record store behind /api/expenses and *)
(* the statistics aggregation of /api/stats, for the storage paths the     *)
(* program can run on (SQLAlchemy, MongoDB).                               *)
(*                                                                         *)
(* Dates are day numbers counted from 1970-01-01 (datetime.date), or the   *)
(* triple <<year, month, day>> where the code holds an ISO 'YYYY-MM-DD'    *)
(* string.  Amounts are exact integers (the code holds floats).  A text    *)
(* whose characters the code inspects (time-of-day) is a sequence of       *)
(* one-character strings.                                                  *)
(*                                                                         *)
(* With DATA_BACKEND=json app.py stops at import (line 38 names TinyDB,     *)
(* which nothing defines), so the is_tiny branches of the handlers never   *)
(* run and are not part of the model.                                      *)
(*                                                                         *)
(* The server handles requests concurrently.  A handler of the SQL path    *)
(* that sends more than one statement to the database is one step per      *)
(* statement: the steps of other requests come between them, and every     *)
(* statement sees the rows committed so far.  A handler of the MongoDB     *)
(* path reads or writes the collection once.  get_stats reads the clock    *)
(* before it reads the store: that is a step of its own on both paths.     *)
(***************************************************************************)
EXTENDS Integers, Sequences, FiniteSets, Bags, TLC

VARIABLES
    backend,    \* the storage path the program was started with
    today,      \* the day datetime.now() shows
    expenses,   \* the stored records (rows of the table, documents of the collection)
    next_id,    \* the next id the document store hands out
    reqs,       \* the requests being served: the bag of their handlers' local values
    served,     \* the number of requests accepted so far
    resp        \* the answer sent by the latest step, NoAnswer if it sent none

vars == <<backend, today, expenses, next_id, reqs, served, resp>>

-----------------------------------------------------------------------------
(* Bounds of the model *)

\* the day the clock shows at start: 2024-03-14 (day number from 1970-01-01)
StartDay == 19796
\* the clock advances at most this many days
MaxTicks == 1
\* at most this many records in the store at a time
MaxRecords == 2
\* no record gets an id above this
MaxId == 2
\* at most this many requests are being served at a time
MaxInFlight == 2
\* the server accepts at most this many requests
MaxRequests == 3
\* first day and number of days of the calendar sweep (2023-12-25 onward)
SweepStart == 19716
SweepDays == 100
\* at most this many records in the store during the calendar sweep
MaxSweepRecords == 1

-----------------------------------------------------------------------------
(* datetime.date: the proleptic Gregorian calendar *)

\* year, month, day of a day number (date.year, date.month, date.day)
CivilFromDays(n) ==
    LET z   == n + 719468
        era == z \div 146097
        doe == z - era * 146097
        yoe == (doe - (doe \div 1460) + (doe \div 36524) - (doe \div 146096)) \div 365
        doy == doe - (365 * yoe + (yoe \div 4) - (yoe \div 100))
        mp  == (5 * doy + 2) \div 153
        d   == doy - ((153 * mp + 2) \div 5) + 1
        m   == IF mp < 10 THEN mp + 3 ELSE mp - 9
        y   == yoe + era * 400 + (IF m <= 2 THEN 1 ELSE 0)
    IN  <<y, m, d>>

\* the day number of year y, month m, day d: what parsing 'YYYY-MM-DD' yields
DaysFromCivil(ymd) ==
    LET y0  == ymd[1]
        m   == ymd[2]
        d   == ymd[3]
        y   == IF m <= 2 THEN y0 - 1 ELSE y0
        era == y \div 400
        yoe == y - era * 400
        mp  == IF m > 2 THEN m - 3 ELSE m + 9
        doy == ((153 * mp + 2) \div 5) + d - 1
        doe == yoe * 365 + (yoe \div 4) - (yoe \div 100) + doy
    IN  era * 146097 + doe - 719468

\* date.replace(day=1)
ReplaceDay1(n) == n - (CivilFromDays(n)[3] - 1)

\* date.weekday(): Monday is 0
Weekday(n) == (n + 3) % 7

\* strftime('%a')
DayAbbr == <<"Mon", "Tue", "Wed", "Thu", "Fri", "Sat", "Sun">>
StrftimeA(n) == DayAbbr[Weekday(n) + 1]

\* the characters of the day names
DayChars == << <<"M", "o", "n">>, <<"T", "u", "e">>, <<"W", "e", "d">>,
               <<"T", "h", "u">>, <<"F", "r", "i">>, <<"S", "a", "t">>,
               <<"S", "u", "n">> >>

\* strftime('%b %Y'): the month's abbreviation and the year
MonthAbbr == <<"Jan", "Feb", "Mar", "Apr", "May", "Jun",
               "Jul", "Aug", "Sep", "Oct", "Nov", "Dec">>
StrftimeBY(n) == <<MonthAbbr[CivilFromDays(n)[2]], CivilFromDays(n)[1]>>

\* the characters of the month names
MonthChars == << <<"J", "a", "n">>, <<"F", "e", "b">>, <<"M", "a", "r">>,
                 <<"A", "p", "r">>, <<"M", "a", "y">>, <<"J", "u", "n">>,
                 <<"J", "u", "l">>, <<"A", "u", "g">>, <<"S", "e", "p">>,
                 <<"O", "c", "t">>, <<"N", "o", "v">>, <<"D", "e", "c">> >>

-----------------------------------------------------------------------------
(* Python values: None or a text *)

None == [isNone |-> TRUE, str |-> <<>>]
Str(s) == [isNone |-> FALSE, str |-> s]

\* truth value of an optional text: None and '' are false
Truthy(v) == (~v.isNone) /\ Len(v.str) > 0

\* s.split(':')[0]: the text before the first colon, all of it if there is none
RECURSIVE SplitColonFirst(_)
SplitColonFirst(s) ==
    IF s = <<>> \/ Head(s) = ":" THEN <<>>
    ELSE <<Head(s)>> \o SplitColonFirst(Tail(s))

Digit == <<"0", "1", "2", "3", "4", "5", "6", "7", "8", "9">>

Upper == <<"A", "B", "C", "D", "E", "F", "G", "H", "I", "J", "K", "L", "M",
           "N", "O", "P", "Q", "R", "S", "T", "U", "V", "W", "X", "Y", "Z">>

Lower == <<"a", "b", "c", "d", "e", "f", "g", "h", "i", "j", "k", "l", "m",
           "n", "o", "p", "q", "r", "s", "t", "u", "v", "w", "x", "y", "z">>

\* ord(c) for a space, a colon, a digit or a letter
Ord(c) ==
    IF c = " " THEN 32
    ELSE IF c = ":" THEN 58
    ELSE IF \E i \in 1..10 : Digit[i] = c THEN 47 + (CHOOSE i \in 1..10 : Digit[i] = c)
    ELSE IF \E i \in 1..26 : Upper[i] = c THEN 64 + (CHOOSE i \in 1..26 : Upper[i] = c)
    ELSE 96 + (CHOOSE i \in 1..26 : Lower[i] = c)

\* Python's str < str
RECURSIVE StrLess(_, _)
StrLess(a, b) ==
    IF b = <<>> THEN FALSE
    ELSE IF a = <<>> THEN TRUE
    ELSE IF Head(a) = Head(b) THEN StrLess(Tail(a), Tail(b))
    ELSE Ord(Head(a)) < Ord(Head(b))

\* f"{i:02d}:00"
HourKey(i) == <<Digit[(i \div 10) + 1], Digit[(i % 10) + 1], ":", "0", "0">>

-----------------------------------------------------------------------------
(* Ordered dictionaries: a sequence of <<key, value>> pairs, keys distinct *)

DictKeys(d) == {d[i][1] : i \in 1..Len(d)}

DictGet(d, k, default) ==
    IF k \in DictKeys(d)
    THEN LET i == CHOOSE j \in 1..Len(d) : d[j][1] = k IN d[i][2]
    ELSE default

\* d[k] = v: a key already present keeps its place
DictSet(d, k, v) ==
    IF k \in DictKeys(d)
    THEN [i \in 1..Len(d) |-> IF d[i][1] = k THEN <<k, v>> ELSE d[i]]
    ELSE Append(d, <<k, v>>)

RECURSIVE DictSum(_)
DictSum(d) == IF d = <<>> THEN 0 ELSE Head(d)[2] + DictSum(Tail(d))

\* insertion of one pair into a key-sorted sequence
RECURSIVE SortedInsert(_, _)
SortedInsert(d, kv) ==
    IF d = <<>> THEN <<kv>>
    ELSE IF StrLess(kv[1], Head(d)[1]) THEN <<kv>> \o d
    ELSE <<Head(d)>> \o SortedInsert(Tail(d), kv)

\* dict(sorted(d.items()))
RECURSIVE SortedItems(_)
SortedItems(d) ==
    IF d = <<>> THEN <<>>
    ELSE SortedInsert(SortedItems(Tail(d)), Head(d))

-----------------------------------------------------------------------------
(* Configuration and request inputs *)

\* the storage path taken by every handler: is_mongo or not (SQLAlchemy)
Backends == {"sql", "mongo"}

\* the registered accounts (ids of current_user)
Users == {1, 2}

\* the values of ?period= : the four selectors and one the code does not know
Periods == {"daily", "weekly", "monthly", "all", "yearly"}

\* JSON bodies of POST /api/expenses; date is the text 'YYYY-MM-DD' as <<y, m, d>>
Body(desc, amt, cat, ymd, t) ==
    [description |-> desc, amount |-> amt, category |-> cat, date |-> ymd, time |-> t]

BodyList ==
    << Body("lunch", 10, "food",      <<2024, 3, 15>>, Str(<<"0", "9", ":", "1", "5">>)),
       Body("bus",    5, "transport", <<2024, 3, 8>>,  None),
       Body("snack",  2, "food",      <<2024, 3, 14>>, Str(<<"9", ":", "1", "5">>)),
       Body("taxi",   3, "transport", <<2024, 3, 7>>,  Str(<<>>)),
       Body("dinner", 4, "food",      <<2024, 2, 13>>, Str(<<"2", "3", ":", "5", "9">>)),
       Body("refund", -1, "transport", <<2024, 1, 30>>, Str(<<"0", "9", ":", "1", "5">>)) >>

RequestBodies == {BodyList[i] : i \in 1..Len(BodyList)}

-----------------------------------------------------------------------------
(* The record store *)

\* the date of a stored record as a datetime.date: the SQL column is a Date,
\* the document store keeps the request's text and parses it on every read
RecDate(b, r) == IF b = "sql" THEN r.date ELSE DaysFromCivil(r.date)

\* the records of one account: filter_by(user_id=...), find({'user_id': ...})
OwnedBy(store, u) == {r \in store : r.user_id = u}

RECURSIVE SumAmount(_)
\* func.sum(Expense.amount) / sum(d.get('amount', 0) for d in ...)
SumAmount(S) ==
    IF S = {} THEN 0
    ELSE LET r == CHOOSE x \in S : TRUE IN r.amount + SumAmount(S \ {r})

\* the id given to a new record: SQLite's rowid is one more than the largest
\* in the table; the document store hands out ids that are never reused
RECURSIVE MaxIdOf(_)
MaxIdOf(S) ==
    IF S = {} THEN 0
    ELSE LET r == CHOOSE x \in S : TRUE
             m == MaxIdOf(S \ {r})
         IN  IF r.id > m THEN r.id ELSE m

NewId(b, store, nid) == IF b = "sql" THEN MaxIdOf(store) + 1 ELSE nid

\* the record add_expense stores for a request body
NewRecord(b, store, nid, u, body) ==
    [id          |-> NewId(b, store, nid),
     user_id     |-> u,
     description |-> body.description,
     amount      |-> body.amount,
     category    |-> body.category,
     date        |-> IF b = "sql" THEN DaysFromCivil(body.date) ELSE body.date,
     time        |-> body.time]

\* Expense.to_dict and the dictionary the document path returns
ToDict(b, r) ==
    [id          |-> r.id,
     description |-> r.description,
     amount      |-> r.amount,
     category    |-> r.category,
     date        |-> IF b = "sql" THEN CivilFromDays(r.date) ELSE r.date,
     time        |-> IF b = "sql" /\ ~Truthy(r.time) THEN Str(<<>>) ELSE r.time]

-----------------------------------------------------------------------------
(* GET /api/stats *)

\* the selectors that set start_date and end_date; any other leaves them None
HasWindow(period) == period \in {"daily", "weekly", "monthly"}

\* start_date of the window (end_date is today)
StartDate(period, t) ==
    CASE period = "daily"   -> t
      [] period = "weekly"  -> t - 7
      [] period = "monthly" -> t - 30

\* InWindow with the start of the window left out (date > start_date)
InWindow_exclusive(period, t, day) == day > StartDate(period, t) /\ day <= t

\* Expense.date >= start_date, Expense.date <= end_date
InWindow(period, t, day) == day >= StartDate(period, t) /\ day <= t

\* expenses_query (SQL) / expenses (document path): the account's records,
\* restricted to the window when the selector has one
WindowedRecords(b, store, u, period, t) ==
    IF HasWindow(period)
    THEN {r \in OwnedBy(store, u) : InWindow(period, t, RecDate(b, r))}
    ELSE OwnedBy(store, u)

\* the records weekly_spent and monthly_spent are summed over: base_query on
\* the SQL path, the already windowed list on the document path
RecentSource(b, store, u, period, t) ==
    IF b = "sql" THEN OwnedBy(store, u)
    ELSE WindowedRecords(b, store, u, period, t)

\* the date filter of weekly_spent (days = 7) and monthly_spent (days = 30)
SinceDaysAgo(b, S, t, days) == {r \in S : RecDate(b, r) >= t - days}

TotalSpent(b, store, u, period, t) ==
    SumAmount(WindowedRecords(b, store, u, period, t))

WeeklySpent(b, store, u, period, t) ==
    SumAmount(SinceDaysAgo(b, RecentSource(b, store, u, period, t), t, 7))

MonthlySpent(b, store, u, period, t) ==
    SumAmount(SinceDaysAgo(b, RecentSource(b, store, u, period, t), t, 30))

\* category_data: category label -> sum of amounts, built record by record
\* (category_data[cat] = category_data.get(cat, 0) + amount; GROUP BY on SQL)
RECURSIVE CategoryLoop(_, _)
CategoryLoop(S, f) ==
    IF S = {} THEN f
    ELSE LET r == CHOOSE x \in S : TRUE
             c == r.category
         IN  CategoryLoop(S \ {r},
                          IF c \in DOMAIN f
                          THEN [f EXCEPT ![c] = @ + r.amount]
                          ELSE f @@ (c :> r.amount))

CategoryData(S) == CategoryLoop(S, <<>>)

\* the hour text of a record: time.split(':')[0], '00' when time is None or ''
HourOf(r) ==
    IF Truthy(r.time) THEN SplitColonFirst(r.time.str) ELSE <<"0", "0">>

\* the loop over the records of the daily breakdown
RECURSIVE DailyAccumulate(_, _)
DailyAccumulate(S, d) ==
    IF S = {} THEN d
    ELSE LET r   == CHOOSE x \in S : TRUE
             key == HourOf(r) \o <<":", "0", "0">>
         IN  DailyAccumulate(S \ {r}, DictSet(d, key, DictGet(d, key, 0) + r.amount))

\* for i in range(24): add the hour when it is missing
RECURSIVE FillHours(_, _)
FillHours(d, i) ==
    IF i >= 24 THEN d
    ELSE FillHours(IF HourKey(i) \in DictKeys(d) THEN d ELSE Append(d, <<HourKey(i), 0>>),
                   i + 1)

DailyBreakdown(S) == SortedItems(FillHours(DailyAccumulate(S, <<>>), 0))

\* for i in range(7): daily_breakdown[(today - (6 - i)).strftime('%a')] = 0
RECURSIVE WeeklyInit(_, _, _)
WeeklyInit(t, i, d) ==
    IF i >= 7 THEN d
    ELSE WeeklyInit(t, i + 1, DictSet(d, StrftimeA(t - (6 - i)), 0))

\* daily_breakdown[day_name] += amount, for every record; a day name that is
\* not a key raises KeyError
WeeklyKeyError(b, S, t) ==
    \E r \in S : StrftimeA(RecDate(b, r)) \notin DictKeys(WeeklyInit(t, 0, <<>>))

RECURSIVE WeeklyAccumulate(_, _, _)
WeeklyAccumulate(b, S, d) ==
    IF S = {} THEN d
    ELSE LET r   == CHOOSE x \in S : TRUE
             key == StrftimeA(RecDate(b, r))
         IN  WeeklyAccumulate(b, S \ {r}, DictSet(d, key, DictGet(d, key, 0) + r.amount))

WeeklyBreakdown(b, S, t) == WeeklyAccumulate(b, S, WeeklyInit(t, 0, <<>>))

\* month_start and month_end of iteration i of the monthly loop
MonthStart(t, i) == ReplaceDay1(t - 30 * i)
MonthEnd(t, i) == IF i > 0 THEN ReplaceDay1(t - 30 * (i - 1)) - 1 ELSE t

\* the amount of iteration i: records dated in [month_start, month_end]
MonthAmount(b, S, t, i) ==
    SumAmount({r \in S : RecDate(b, r) >= MonthStart(t, i)
                         /\ RecDate(b, r) <= MonthEnd(t, i)})

\* for i in range(6): monthly_breakdown[month_key] = float(amount)
RECURSIVE MonthlyLoop(_, _, _, _, _)
MonthlyLoop(b, S, t, i, d) ==
    IF i >= 6 THEN d
    ELSE MonthlyLoop(b, S, t, i + 1,
                     DictSet(d, StrftimeBY(t - 30 * i), MonthAmount(b, S, t, i)))

MonthlyBreakdown(b, S, t) == MonthlyLoop(b, S, t, 0, <<>>)

\* the records the monthly loop reads: Expense.query (every row of the table)
\* on the SQL path, the windowed list of the account on the document path
MonthlySource(b, store, u, period, t) ==
    IF b = "sql" THEN store
    ELSE WindowedRecords(b, store, u, period, t)

Breakdown(b, store, u, period, t) ==
    IF period = "daily"
    THEN DailyBreakdown(WindowedRecords(b, store, u, period, t))
    ELSE IF period = "weekly"
    THEN WeeklyBreakdown(b, WindowedRecords(b, store, u, period, t), t)
    ELSE MonthlyBreakdown(b, MonthlySource(b, store, u, period, t), t)

\* str(n) of a year
RECURSIVE DigitsOf(_)
DigitsOf(n) ==
    IF n < 10 THEN <<Digit[n + 1]>>
    ELSE DigitsOf(n \div 10) \o <<Digit[(n % 10) + 1]>>

\* the text of a breakdown key: the hour text, the day name, or '%b %Y'
KeyText(period, k) ==
    IF period = "daily" THEN k
    ELSE IF period = "weekly" THEN DayChars[CHOOSE i \in 1..7 : DayAbbr[i] = k]
    ELSE MonthChars[CHOOSE i \in 1..12 : MonthAbbr[i] = k[1]]
             \o <<" ">> \o DigitsOf(k[2])

RECURSIVE JsonInsert(_, _, _)
JsonInsert(period, d, kv) ==
    IF d = <<>> THEN <<kv>>
    ELSE IF StrLess(KeyText(period, kv[1]), KeyText(period, Head(d)[1]))
    THEN <<kv>> \o d
    ELSE <<Head(d)>> \o JsonInsert(period, Tail(d), kv)

\* jsonify writes the keys of an object in sorted order (sort_keys)
RECURSIVE JsonSortKeys(_, _)
JsonSortKeys(period, d) ==
    IF d = <<>> THEN <<>>
    ELSE JsonInsert(period, JsonSortKeys(period, Tail(d)), Head(d))

\* StatsAnswer with the period field normalised to a selector the code knows
StatsAnswer_period_normalised(total, weekly, monthly, cats, bd, period) ==
    [total_spent    |-> total,
     weekly_spent   |-> weekly,
     monthly_spent  |-> monthly,
     category_stats |-> cats,
     breakdown      |-> JsonSortKeys(period, bd),
     period         |-> IF HasWindow(period) THEN period ELSE "all"]

\* the JSON object get_stats returns
StatsAnswer(total, weekly, monthly, cats, bd, period) ==
    [total_spent    |-> total,
     weekly_spent   |-> weekly,
     monthly_spent  |-> monthly,
     category_stats |-> cats,
     breakdown      |-> JsonSortKeys(period, bd),
     period         |-> period]

\* the answer of get_stats when every read of the handler sees the same store
StatsOf(b, store, u, period, t) ==
    StatsAnswer(TotalSpent(b, store, u, period, t),
                WeeklySpent(b, store, u, period, t),
                MonthlySpent(b, store, u, period, t),
                CategoryData(WindowedRecords(b, store, u, period, t)),
                Breakdown(b, store, u, period, t),
                period)

-----------------------------------------------------------------------------
(* GET /api/expenses *)

\* the account's records by date, latest first (records of one date in the
\* order they were stored)
RECURSIVE SortedByDateDesc(_, _)
SortedByDateDesc(b, S) ==
    IF S = {} THEN <<>>
    ELSE LET r == CHOOSE x \in S : \A y \in S :
                     \/ RecDate(b, x) > RecDate(b, y)
                     \/ (RecDate(b, x) = RecDate(b, y) /\ x.id <= y.id)
         IN  <<r>> \o SortedByDateDesc(b, S \ {r})

ExpensesOf(b, store, u) ==
    LET s == SortedByDateDesc(b, OwnedBy(store, u))
    IN  [i \in 1..Len(s) |-> ToDict(b, s[i])]

-----------------------------------------------------------------------------
(* DELETE /api/expenses/<int:expense_id> *)

\* ObjectId(expense_id) with the integer of the route: bson accepts only a
\* 12-byte value, a 24-digit hex text or an ObjectId, and raises otherwise
ObjectIdRaises(b) == b = "mongo"

\* StoreAfterDelete with the rows of the record's account as the filter
StoreAfterDelete_owner_wiped(store, expense_id) ==
    {r \in store : \A q \in store : q.id = expense_id => r.user_id # q.user_id}

\* the table after DELETE FROM expense WHERE expense.id = ? is committed
StoreAfterDelete(store, expense_id) == {r \in store : r.id # expense_id}

-----------------------------------------------------------------------------
(* The state machine *)

NoAnswer == [op |-> "none"]

\* a request starts being served / its handler moves on or returns
Put(B, q) == B (+) SetToBag({q})
Take(B, q) == B (-) SetToBag({q})

\* the requests whose handler took a step: as they were before it (Stepped)
\* and as they are after it (Reached); a handler that returned is in Stepped
\* only, a request just accepted in Reached only
Stepped == {q \in BagToSet(reqs) : CopiesIn(q, reqs') < CopiesIn(q, reqs)}
Reached == {q \in BagToSet(reqs') : CopiesIn(q, reqs') > CopiesIn(q, reqs)}

\* the server takes one more request
Accept ==
    /\ served < MaxRequests
    /\ BagCardinality(reqs) < MaxInFlight
    /\ served' = served + 1

Init ==
    /\ backend \in Backends
    /\ today = StartDay
    /\ expenses = {}
    /\ next_id = 1
    /\ reqs = EmptyBag
    /\ served = 0
    /\ resp = NoAnswer

\* POST /api/expenses: the record is stored (insert_one; add and commit).  The
\* document path answers with the dictionary it built; the SQL path still has
\* to read the row back for to_dict()
add_expense(u, body) ==
    /\ Accept
    /\ Cardinality(expenses) < MaxRecords
    /\ NewId(backend, expenses, next_id) <= MaxId
    /\ LET rec == NewRecord(backend, expenses, next_id, u, body)
       IN  /\ expenses' = expenses \cup {rec}
           /\ IF backend = "sql"
              THEN /\ reqs' = Put(reqs, [op |-> "add_expense", user |-> u, id |-> rec.id])
                   /\ resp' = NoAnswer
              ELSE /\ reqs' = reqs
                   /\ resp' = [op |-> "add_expense", user |-> u, status |-> 201,
                               expense |-> ToDict(backend, rec)]
    /\ next_id' = IF backend = "sql" THEN next_id ELSE next_id + 1
    /\ UNCHANGED <<backend, today>>

\* expense.to_dict() after the commit: the attributes are expired and loaded
\* again from the row with the id of the insert (no such row: the load raises)
add_expense_to_dict(q) ==
    /\ q.op = "add_expense"
    /\ LET rows == {r \in expenses : r.id = q.id}
       IN  resp' = IF rows = {}
                   THEN [op |-> "add_expense", user |-> q.user, status |-> 500]
                   ELSE [op |-> "add_expense", user |-> q.user, status |-> 201,
                         expense |-> ToDict(backend, CHOOSE r \in rows : TRUE)]
    /\ reqs' = Take(reqs, q)
    /\ UNCHANGED <<backend, today, expenses, next_id, served>>

\* DELETE /api/expenses/<id>: ObjectId(expense_id) raises on the document
\* path; the SQL path loads the row (Expense.query.get) and tests its owner
delete_expense(u, expense_id) ==
    /\ Accept
    /\ IF ObjectIdRaises(backend)
       THEN /\ reqs' = reqs
            /\ resp' = [op |-> "delete_expense", user |-> u, status |-> 400,
                        id |-> expense_id]
       ELSE IF \E r \in expenses : r.id = expense_id /\ r.user_id = u
       THEN /\ reqs' = Put(reqs, [op |-> "delete_expense", user |-> u, id |-> expense_id])
            /\ resp' = NoAnswer
       ELSE /\ reqs' = reqs
            /\ resp' = [op |-> "delete_expense", user |-> u, status |-> 200,
                        id |-> expense_id]
    /\ UNCHANGED <<backend, today, expenses, next_id>>

\* db.session.delete(expense); db.session.commit()
delete_expense_commit(q) ==
    /\ q.op = "delete_expense"
    /\ expenses' = StoreAfterDelete(expenses, q.id)
    /\ resp' = [op |-> "delete_expense", user |-> q.user, status |-> 200,
                id |-> q.id]
    /\ reqs' = Take(reqs, q)
    /\ UNCHANGED <<backend, today, next_id, served>>

\* GET /api/expenses: one read on either path
get_expenses(u) ==
    /\ Accept
    /\ resp' = [op |-> "get_expenses", user |-> u, status |-> 200,
                list |-> ExpensesOf(backend, expenses, u)]
    /\ UNCHANGED <<backend, today, expenses, next_id, reqs>>

\* the answer of get_stats: the KeyError of the weekly loop is a 500
StatsResp(u, period, t, keyError, stats) ==
    IF keyError
    THEN [op |-> "get_stats", user |-> u, arg |-> period, day |-> t, status |-> 500]
    ELSE [op |-> "get_stats", user |-> u, arg |-> period, day |-> t, status |-> 200,
          stats |-> stats]

\* GET /api/stats: the handler reads the clock (today) and works out the
\* window; it has not read the store yet
get_stats(u, period) ==
    /\ Accept
    /\ reqs' = Put(reqs, [op |-> "get_stats", user |-> u,
             period |-> period, today |-> today, stmt |-> 0,
             total_spent |-> 0, weekly_spent |-> 0, monthly_spent |-> 0,
             category_data |-> <<>>, breakdown |-> <<>>])
    /\ resp' = NoAnswer
    /\ UNCHANGED <<backend, today, expenses, next_id>>

\* the document path: one find reads the account's documents; the sums, the
\* categories and the breakdown are computed from that list and the answer
\* is sent
get_stats_find(q) ==
    /\ q.op = "get_stats" /\ q.stmt = 0
    /\ backend = "mongo"
    /\ resp' = StatsResp(q.user, q.period, q.today,
                   q.period = "weekly"
                   /\ WeeklyKeyError(backend,
                          WindowedRecords(backend, expenses, q.user, q.period, q.today),
                          q.today),
                   StatsOf(backend, expenses, q.user, q.period, q.today))
    /\ reqs' = Take(reqs, q)
    /\ UNCHANGED <<backend, today, expenses, next_id, served>>

\* the SQL path, first statement: total_spent
get_stats_total_spent(q) ==
    /\ q.op = "get_stats" /\ q.stmt = 0
    /\ backend = "sql"
    /\ reqs' = Put(Take(reqs, q),
               [q EXCEPT !.stmt = 1,
                      !.total_spent =
                          TotalSpent(backend, expenses, q.user, q.period, q.today)])
    /\ resp' = NoAnswer
    /\ UNCHANGED <<backend, today, expenses, next_id, served>>

\* the second statement: weekly_spent
get_stats_weekly_spent(q) ==
    /\ q.op = "get_stats" /\ q.stmt = 1
    /\ reqs' = Put(Take(reqs, q),
               [q EXCEPT !.stmt = 2,
                      !.weekly_spent =
                          WeeklySpent(backend, expenses, q.user, q.period, q.today)])
    /\ resp' = NoAnswer
    /\ UNCHANGED <<backend, today, expenses, next_id, served>>

\* the third statement: monthly_spent
get_stats_monthly_spent(q) ==
    /\ q.op = "get_stats" /\ q.stmt = 2
    /\ reqs' = Put(Take(reqs, q),
               [q EXCEPT !.stmt = 3,
                      !.monthly_spent =
                          MonthlySpent(backend, expenses, q.user, q.period, q.today)])
    /\ resp' = NoAnswer
    /\ UNCHANGED <<backend, today, expenses, next_id, served>>

\* the fourth statement: category_stats (GROUP BY category)
get_stats_category_stats(q) ==
    /\ q.op = "get_stats" /\ q.stmt = 3
    /\ reqs' = Put(Take(reqs, q),
               [q EXCEPT !.stmt = 4,
                      !.category_data =
                          CategoryData(WindowedRecords(backend, expenses, q.user,
                                                       q.period, q.today))])
    /\ resp' = NoAnswer
    /\ UNCHANGED <<backend, today, expenses, next_id, served>>

\* period daily or weekly: expenses_query.all() is the fifth and last
\* statement; the loop over its rows fills the breakdown and the answer is sent
get_stats_breakdown(q) ==
    /\ q.op = "get_stats" /\ q.stmt = 4
    /\ q.period \in {"daily", "weekly"}
    /\ resp' = StatsResp(q.user, q.period, q.today,
                   q.period = "weekly"
                   /\ WeeklyKeyError(backend,
                          WindowedRecords(backend, expenses, q.user, q.period, q.today),
                          q.today),
                   StatsAnswer(q.total_spent, q.weekly_spent, q.monthly_spent,
                               q.category_data,
                               Breakdown(backend, expenses, q.user, q.period, q.today),
                               q.period))
    /\ reqs' = Take(reqs, q)
    /\ UNCHANGED <<backend, today, expenses, next_id, served>>

\* any other period: iteration i = stmt - 4 of the monthly loop runs one
\* statement over the table; the answer is sent after the sixth
get_stats_month(q) ==
    /\ q.op = "get_stats" /\ q.stmt >= 4
    /\ q.period \notin {"daily", "weekly"}
    /\ LET i  == q.stmt - 4
           bd == DictSet(q.breakdown, StrftimeBY(q.today - 30 * i),
                         MonthAmount(backend,
                             MonthlySource(backend, expenses, q.user, q.period, q.today),
                             q.today, i))
       IN  IF i < 5
           THEN /\ reqs' = Put(Take(reqs, q),
                           [q EXCEPT !.stmt = q.stmt + 1, !.breakdown = bd])
                /\ resp' = NoAnswer
           ELSE /\ reqs' = Take(reqs, q)
                /\ resp' = StatsResp(q.user, q.period, q.today, FALSE,
                               StatsAnswer(q.total_spent, q.weekly_spent,
                                           q.monthly_spent, q.category_data,
                                           bd, q.period))
    /\ UNCHANGED <<backend, today, expenses, next_id, served>>

\* midnight: datetime.now().date() moves to the next day
Tick ==
    /\ today < StartDay + MaxTicks
    /\ today' = today + 1
    /\ resp' = NoAnswer
    /\ UNCHANGED <<backend, expenses, next_id, reqs, served>>

Next ==
    \/ \E u \in Users, body \in RequestBodies : add_expense(u, body)
    \/ \E q \in BagToSet(reqs) : add_expense_to_dict(q)
    \/ \E u \in Users, i \in 1..(MaxId + 1) : delete_expense(u, i)
    \/ \E q \in BagToSet(reqs) : delete_expense_commit(q)
    \/ \E u \in Users : get_expenses(u)
    \/ \E u \in Users, period \in Periods : get_stats(u, period)
    \/ \E q \in BagToSet(reqs) : get_stats_find(q)
    \/ \E q \in BagToSet(reqs) : get_stats_total_spent(q)
    \/ \E q \in BagToSet(reqs) : get_stats_weekly_spent(q)
    \/ \E q \in BagToSet(reqs) : get_stats_monthly_spent(q)
    \/ \E q \in BagToSet(reqs) : get_stats_category_stats(q)
    \/ \E q \in BagToSet(reqs) : get_stats_breakdown(q)
    \/ \E q \in BagToSet(reqs) : get_stats_month(q)
    \/ Tick

Spec == Init /\ [][Next]_vars

\* the calendar sweep: the service started on any day of the sweep, nothing
\* stored yet, one request for the statistics
InitCalendar ==
    /\ backend \in Backends
    /\ today \in SweepStart..(SweepStart + SweepDays)
    /\ expenses = {}
    /\ next_id = 1
    /\ reqs = EmptyBag
    /\ served = MaxRequests - 1
    /\ resp = NoAnswer

NextCalendar ==
    \/ \E u \in Users, period \in Periods : get_stats(u, period)
    \/ \E q \in BagToSet(reqs) : get_stats_find(q)
    \/ \E q \in BagToSet(reqs) : get_stats_total_spent(q)
    \/ \E q \in BagToSet(reqs) : get_stats_weekly_spent(q)
    \/ \E q \in BagToSet(reqs) : get_stats_monthly_spent(q)
    \/ \E q \in BagToSet(reqs) : get_stats_category_stats(q)
    \/ \E q \in BagToSet(reqs) : get_stats_breakdown(q)
    \/ \E q \in BagToSet(reqs) : get_stats_month(q)
    \/ Tick

SpecCalendar == InitCalendar /\ [][NextCalendar]_vars

\* the statistics as a function of the store: the service holds any store of
\* up to MaxRecords records (posted by any accounts, in any order), on any day
\* the clock can show, and one request for the statistics is served
RECURSIVE StoreOfPosts(_, _, _)
StoreOfPosts(b, posts, store) ==
    IF posts = <<>> THEN store
    ELSE StoreOfPosts(b, Tail(posts),
             store \cup {NewRecord(b, store, Cardinality(store) + 1,
                                   Head(posts)[1], BodyList[Head(posts)[2]])})

\* the posts <<account, body>> in one fixed order (a store is a set: the
\* order of the posts only decides the ids)
PostRank(post) == (post[1] - 1) * Len(BodyList) + post[2]

PostLists ==
    UNION { {q \in [1..n -> Users \X (1..Len(BodyList))] :
                \A i \in 1..n, j \in 1..n : i < j => PostRank(q[i]) <= PostRank(q[j])}
            : n \in 0..MaxRecords }

InitStats ==
    /\ backend \in Backends
    /\ today \in StartDay..(StartDay + MaxTicks)
    /\ \E posts \in PostLists :
           /\ expenses = StoreOfPosts(backend, posts, {})
           /\ next_id = IF backend = "sql" THEN 1 ELSE Len(posts) + 1
    /\ reqs = EmptyBag
    /\ served = MaxRequests - 1
    /\ resp = NoAnswer

NextStats ==
    \/ \E u \in Users, period \in Periods : get_stats(u, period)
    \/ \E q \in BagToSet(reqs) : get_stats_find(q)
    \/ \E q \in BagToSet(reqs) : get_stats_total_spent(q)
    \/ \E q \in BagToSet(reqs) : get_stats_weekly_spent(q)
    \/ \E q \in BagToSet(reqs) : get_stats_monthly_spent(q)
    \/ \E q \in BagToSet(reqs) : get_stats_category_stats(q)
    \/ \E q \in BagToSet(reqs) : get_stats_breakdown(q)
    \/ \E q \in BagToSet(reqs) : get_stats_month(q)

SpecStats == InitStats /\ [][NextStats]_vars

\* the statistics over the calendar: the service holds any store of up to
\* MaxSweepRecords records on any day of the sweep, and one request for the
\* statistics is served
InitMonths ==
    /\ backend \in Backends
    /\ today \in SweepStart..(SweepStart + SweepDays)
    /\ \E posts \in {q \in PostLists : Len(q) <= MaxSweepRecords} :
           /\ expenses = StoreOfPosts(backend, posts, {})
           /\ next_id = IF backend = "sql" THEN 1 ELSE Len(posts) + 1
    /\ reqs = EmptyBag
    /\ served = MaxRequests - 1
    /\ resp = NoAnswer

NextMonths ==
    \/ \E u \in Users, period \in Periods : get_stats(u, period)
    \/ \E q \in BagToSet(reqs) : get_stats_find(q)
    \/ \E q \in BagToSet(reqs) : get_stats_total_spent(q)
    \/ \E q \in BagToSet(reqs) : get_stats_weekly_spent(q)
    \/ \E q \in BagToSet(reqs) : get_stats_monthly_spent(q)
    \/ \E q \in BagToSet(reqs) : get_stats_category_stats(q)
    \/ \E q \in BagToSet(reqs) : get_stats_breakdown(q)
    \/ \E q \in BagToSet(reqs) : get_stats_month(q)

SpecMonths == InitMonths /\ [][NextMonths]_vars

-----------------------------------------------------------------------------
(* Properties *)

\* the latest step answered a GET /api/stats with the statistics
StatsAnswered == resp.op = "get_stats" /\ resp.status = 200

\* that answer is the one the store as it is now gives on the day of the request
StatsCurrent ==
    /\ StatsAnswered
    /\ resp.day = today
    /\ resp.stats = StatsOf(backend, expenses, resp.user, resp.stats.period, today)

\* sum of the amounts of a set of records
RECURSIVE AmountsIn(_)
AmountsIn(S) ==
    IF S = {} THEN 0
    ELSE LET r == CHOOSE x \in S : TRUE IN r.amount + AmountsIn(S \ {r})

\* the records of account u dated from day lo through day hi
DatedBetween(u, lo, hi) ==
    {r \in expenses : r.user_id = u /\ RecDate(backend, r) >= lo
                      /\ RecDate(backend, r) <= hi}

\* C1: what get_stats returns to an account does not depend on the records
\* of the other accounts: it is what the account would get if the store held
\* its own records only, for every period.
C1_AccountIsolation ==
    \A u \in Users, p \in Periods :
        StatsOf(backend, expenses, u, p, today)
            = StatsOf(backend, OwnedBy(expenses, u), u, p, today)

\* C2: for daily, weekly, monthly and all, total_spent is the sum of the
\* amounts of the account's records dated in [today, today], [today-7, today],
\* [today-30, today], or of all its records; 0 when there is none.
C2_TotalSpentIsWindowSum ==
    \A u \in Users :
        /\ TotalSpent(backend, expenses, u, "daily", today)
               = AmountsIn(DatedBetween(u, today, today))
        /\ TotalSpent(backend, expenses, u, "weekly", today)
               = AmountsIn(DatedBetween(u, today - 7, today))
        /\ TotalSpent(backend, expenses, u, "monthly", today)
               = AmountsIn(DatedBetween(u, today - 30, today))
        /\ TotalSpent(backend, expenses, u, "all", today)
               = AmountsIn({r \in expenses : r.user_id = u})

\* C2 witness: a weekly answer whose account has a record dated today-7 (in
\* the window), a record dated before it (outside), and a non-zero total
C2_Witness ==
    /\ StatsCurrent
    /\ resp.stats.period = "weekly"
    /\ resp.stats.total_spent # 0
    /\ \E r \in OwnedBy(expenses, resp.user) : RecDate(backend, r) = today - 7
    /\ \E r \in OwnedBy(expenses, resp.user) : RecDate(backend, r) < today - 7

\* C3: weekly_spent and monthly_spent are the same for every period selector.
C3_RecentSumsIgnorePeriod ==
    \A u \in Users, p \in Periods, q \in Periods :
        /\ WeeklySpent(backend, expenses, u, p, today)
               = WeeklySpent(backend, expenses, u, q, today)
        /\ MonthlySpent(backend, expenses, u, p, today)
               = MonthlySpent(backend, expenses, u, q, today)

\* C4: weekly_spent is the sum of the account's records dated in
\* [today-7, today] and monthly_spent of those dated in [today-30, today]; a
\* record dated after today is in neither.
C4_RecentSumsAreWindowSums ==
    \A u \in Users, p \in Periods :
        /\ WeeklySpent(backend, expenses, u, p, today)
               = AmountsIn(DatedBetween(u, today - 7, today))
        /\ MonthlySpent(backend, expenses, u, p, today)
               = AmountsIn(DatedBetween(u, today - 30, today))

\* C5: a record leaves the store only by a delete request of its owner for
\* its id, and when a delete request is answered the requester has no record
\* of that id any more.
C5_DeleteIffOwner ==
    [][/\ \A r \in expenses \ expenses' :
              \E q \in Stepped :
                  q.op = "delete_expense" /\ q.id = r.id /\ q.user = r.user_id
       /\ resp'.op = "delete_expense" =>
              \A r \in expenses' : ~(r.id = resp'.id /\ r.user_id = resp'.user)]_vars

\* C6: the daily breakdown has the 24 keys "00:00" .. "23:00", in that order,
\* and no other key.
C6_DailyHas24HourKeys ==
    (StatsAnswered /\ resp.stats.period = "daily") =>
        [i \in 1..Len(resp.stats.breakdown) |-> resp.stats.breakdown[i][1]]
            = [i \in 1..24 |-> HourKey(i - 1)]

\* C7: for monthly, all and an unknown selector the breakdown has 6 keys:
\* the labels of today - 30*i, i in 0..5, are pairwise distinct (today as the
\* request read it).
C7_MonthlyHasSixKeys ==
    (StatsAnswered /\ resp.stats.period \notin {"daily", "weekly"}) =>
        /\ Len(resp.stats.breakdown) = 6
        /\ \A i \in 0..5, j \in 0..5 :
               i # j => StrftimeBY(resp.day - 30 * i) # StrftimeBY(resp.day - 30 * j)

\* C8: for daily and weekly the request is answered (no bucket lookup fails)
\* and the values of the breakdown sum to total_spent.
C8_BreakdownSumsToTotal ==
    /\ resp.op = "get_stats" => resp.status = 200
    /\ (StatsAnswered /\ resp.stats.period \in {"daily", "weekly"}) =>
           DictSum(resp.stats.breakdown) = resp.stats.total_spent

\* C9: the breakdown for period monthly is the breakdown for period all.
C9_MonthlyBreakdownIsAll ==
    \A u \in Users :
        Breakdown(backend, expenses, u, "monthly", today)
            = Breakdown(backend, expenses, u, "all", today)

\* C10: in the weekly breakdown the bucket of today's weekday is the sum of
\* the records dated today (a record dated today-7 is counted elsewhere).
C10_TodayBucketIsToday ==
    \A u \in Users :
        DictGet(Breakdown(backend, expenses, u, "weekly", today), StrftimeA(today), 0)
            = AmountsIn(DatedBetween(u, today, today))

\* the records of account u that the period selects: those dated in
\* [today, today], [today-7, today], [today-30, today], or all of them
SelectedRecords(u, p) ==
    CASE p = "daily"   -> DatedBetween(u, today, today)
      [] p = "weekly"  -> DatedBetween(u, today - 7, today)
      [] p = "monthly" -> DatedBetween(u, today - 30, today)
      [] OTHER         -> {r \in expenses : r.user_id = u}

\* sum of the values of a mapping
RECURSIVE ValuesSum(_)
ValuesSum(f) ==
    IF DOMAIN f = {} THEN 0
    ELSE LET k == CHOOSE x \in DOMAIN f : TRUE
         IN  f[k] + ValuesSum([x \in DOMAIN f \ {k} |-> f[x]])

\* C11: category_stats is computed as the map from the category labels of
\* the account's records in the selected window to the sum of the amounts of
\* the windowed records with that label, and in every answer its values sum
\* to total_spent.
C11_CategoryStatsAreWindowSums ==
    /\ \A u \in Users, p \in Periods :
           LET W  == SelectedRecords(u, p)
               cs == CategoryData(WindowedRecords(backend, expenses, u, p, today))
           IN  /\ DOMAIN cs = {r.category : r \in W}
               /\ \A c \in DOMAIN cs : cs[c] = AmountsIn({r \in W : r.category = c})
    /\ StatsAnswered =>
           ValuesSum(resp.stats.category_stats) = resp.stats.total_spent

\* C12: a selector other than all, daily, weekly, monthly is answered (not an
\* error) with the sums, category_stats and breakdown of period all on the
\* same store and day, and the period field is the selector as it was sent.
C12_UnknownPeriodIsAll ==
    (resp.op = "get_stats" /\ resp.arg \notin {"all", "daily", "weekly", "monthly"}) =>
        /\ resp.status = 200
        /\ resp.stats.period = resp.arg
        /\ [resp.stats EXCEPT !.period = "all"]
               = StatsOf(backend, expenses, resp.user, "all", resp.day)

\* C12 witness: an unknown selector answered for an account with a record in
\* the last 30 days and a record older than that
C12_Witness ==
    /\ StatsCurrent
    /\ resp.arg \notin {"all", "daily", "weekly", "monthly"}
    /\ resp.stats.total_spent # 0
    /\ DatedBetween(resp.user, today - 30, today) # {}
    /\ \E r \in OwnedBy(expenses, resp.user) : RecDate(backend, r) < today - 30

\* C13: no stored record has a negative amount, and no sum get_stats returns
\* is negative.
C13_AmountsNonNegative ==
    /\ \A r \in expenses : r.amount >= 0
    /\ StatsAnswered =>
           /\ resp.stats.total_spent >= 0
           /\ resp.stats.weekly_spent >= 0
           /\ resp.stats.monthly_spent >= 0
           /\ \A c \in DOMAIN resp.stats.category_stats : resp.stats.category_stats[c] >= 0
           /\ \A i \in 1..Len(resp.stats.breakdown) : resp.stats.breakdown[i][2] >= 0

\* a step of a request that reads: it answers get_stats or get_expenses, or
\* it runs a statement of a get_stats request
ReaderStep ==
    \/ resp'.op \in {"get_stats", "get_expenses"}
    \/ \E q \in Reached : q.op = "get_stats"

\* every read of a get_stats request returns the value that the store at
\* that moment, the period and the day the request read determine: a second
\* call with the same period and day on the same store gets the same
RepeatableReads ==
    /\ (resp'.op = "get_stats" /\ resp'.status = 200 /\ backend = "mongo") =>
           resp'.stats = StatsOf(backend, expenses', resp'.user, resp'.arg, resp'.day)
    /\ (/\ resp'.op = "get_stats" /\ resp'.status = 200 /\ backend = "sql"
        /\ resp'.arg \in {"daily", "weekly"}) =>
           resp'.stats.breakdown
               = JsonSortKeys(resp'.arg, Breakdown(backend, expenses', resp'.user,
                                                   resp'.arg, resp'.day))
    /\ \A q \in Reached :
           q.op = "get_stats" =>
               /\ q.stmt = 1 =>
                      q.total_spent
                          = TotalSpent(backend, expenses', q.user, q.period, q.today)
               /\ q.stmt = 2 =>
                      q.weekly_spent
                          = WeeklySpent(backend, expenses', q.user, q.period, q.today)
               /\ q.stmt = 3 =>
                      q.monthly_spent
                          = MonthlySpent(backend, expenses', q.user, q.period, q.today)
               /\ q.stmt = 4 =>
                      q.category_data
                          = CategoryData(WindowedRecords(backend, expenses', q.user,
                                                         q.period, q.today))

\* C14: a step of get_stats or get_expenses leaves the store as it is; a
\* record leaves the store only when a delete request for its id commits; a
\* record enters it only by an add_expense request, under an id no stored
\* record has, so that no stored record is ever changed; and what a get_stats
\* request reads depends only on the store as it is then, the period and the
\* day the request read, so that a second call with the same period and day
\* on the same store returns the same.
C14_RecordsImmutable ==
    [][/\ ReaderStep => expenses' = expenses
       /\ \A r \in expenses \ expenses' :
              \E q \in Stepped : q.op = "delete_expense" /\ q.id = r.id
       /\ \A r \in expenses' \ expenses :
              /\ \A x \in expenses : x.id # r.id
              /\ \/ resp'.op = "add_expense"
                 \/ \E q \in Reached : q.op = "add_expense" /\ q.id = r.id
       /\ RepeatableReads]_vars

\* C14 witness: on the SQL path a delete request was answered after its
\* commit removed the first record, and the second record is still stored
C14_Witness ==
    /\ backend = "sql"
    /\ resp.op = "delete_expense"
    /\ resp.status = 200
    /\ resp.id = 1
    /\ \A r \in expenses : r.id # resp.id
    /\ \E r \in expenses : r.id = 2

\* the keys a breakdown has for a period: the 24 hours, the 7 weekday names,
\* or the month labels of today - 30*i, i in 0..5
PeriodKeys(p) ==
    CASE p = "daily"  -> {HourKey(i) : i \in 0..23}
      [] p = "weekly" -> {DayAbbr[i] : i \in 1..7}
      [] OTHER        -> {StrftimeBY(today - 30 * i) : i \in 0..5}

\* C15: an account with no records gets, for every period, the three sums
\* equal to 0, an empty category_stats, and a breakdown with all the keys of
\* the period and every value 0.
C15_EmptyAccountAllZero ==
    \A u \in Users :
        OwnedBy(expenses, u) = {} =>
            \A p \in Periods :
                LET st == StatsOf(backend, expenses, u, p, today)
                IN  /\ st.total_spent = 0
                    /\ st.weekly_spent = 0
                    /\ st.monthly_spent = 0
                    /\ DOMAIN st.category_stats = {}
                    /\ DictKeys(st.breakdown) = PeriodKeys(p)
                    /\ \A i \in 1..Len(st.breakdown) : st.breakdown[i][2] = 0

\* C16: the date ranges of the six iterations of the monthly loop are
\* pairwise disjoint, and the value under the label of today's month is the
\* sum of the queried records dated from the first of the month through today.
C16_CurrentMonthKept ==
    /\ \A i \in 0..5, j \in 0..5 :
           i < j => \/ MonthEnd(today, j) < MonthStart(today, i)
                    \/ MonthEnd(today, i) < MonthStart(today, j)
    /\ (StatsAnswered /\ resp.stats.period \notin {"daily", "weekly"}) =>
           DictGet(resp.stats.breakdown, StrftimeBY(resp.day), 0)
               = AmountsIn({r \in MonthlySource(backend, expenses, resp.user,
                                                resp.stats.period, resp.day) :
                               /\ RecDate(backend, r) >= ReplaceDay1(resp.day)
                               /\ RecDate(backend, r) <= resp.day})

====
